---------------------------- MODULE Spec2Model ----------------------------
(***************************************************************************)
(* Model of crypto_history/core/primitive_data_builder.py:                 *)
(*   PrimitiveCoinHistoryObtainer, PrimitiveDimensionsManager and          *)
(*   PrimitiveDataContainerOperations.                                     *)
(*                                                                         *)
(* The calling task is a single coroutine; its position is pc.  Every      *)
(* action is the code that runs between two suspensions at the network     *)
(* boundary.  The exchange (market_harmonizer) is the environment: what    *)
(* it answers to a fetch is chosen by \E in the action that completes the  *)
(* fetch.  A fetch the exchange fails leaves the build by the exception    *)
(* of the collaborator; the model follows the builds whose fetches are     *)
(* answered.                                                               *)
(*                                                                         *)
(* Strings are TLC strings, so f"{base}{reference}" is base \o reference.  *)
(* A pandas DataFrame is [index, columns, rows]: index the row labels,     *)
(* columns the ordered column labels, rows[i] the function column -> cell  *)
(* of the i-th row.  An optional value (Python None) is [some, val].       *)
(***************************************************************************)
EXTENDS Integers, Sequences, FiniteSets, TLC

(* ------------------------------ bounds -------------------------------- *)

\* most records one fetch of the exchange answers with
MaxRows == 2
\* most entries in a base-asset list of the build scenario
MaxAssets == 2
\* most builds run on one operations object
MaxBuilds == 2
\* most entries of an asset list handed to the pair selection on its own
MaxLen == 2
\* least index label of a table handed to the padding on its own is 0..MaxStart
MaxStart == 1

(* --------------------------- program constants ------------------------ *)

\* assert limit <= 1000
BinanceLimit == 1000

(* ------------------------------ helpers ------------------------------- *)

None == [some |-> FALSE, val |-> <<>>]

Some(x) == [some |-> TRUE, val |-> x]

NaN == "NaN"

ToSet(s) == {s[i] : i \in 1..Len(s)}

SeqsUpTo(S, n) == UNION {[1..k -> S] : k \in 0..n}

\* membership test of a Python list: x in xs
Contains(xs, x) == \E i \in 1..Len(xs) : xs[i] = x

\* Python truthiness of "self.example_raw_history": None and [] are falsy
Truthy(opt) == opt.some /\ Len(opt.val) > 0

(* ------------------------- the exchange's answers --------------------- *)

\* the fields of one record of a raw history, in the order of the record type
RawColumns == <<"open", "close", "volume">>

\* one record of the symbol-discovery answer
Ticker(sym) == [symbol |-> sym]

\* the ticker pools the exchange may answer with
TickerPools == {[i \in 1..Len(s) |-> Ticker(s[i])] : s \in
                  {<<>>, <<"ETHBTC">>, <<"LTCBTC">>, <<"ETHBTC", "LTCBTC">>}}

CellValue(sym, col, r) == sym \o "." \o col \o ToString(r)

\* one record: the ordered (field, value) pairs of time bucket r
RawRecord(sym, cols, r) == [k \in 1..Len(cols) |-> <<cols[k], CellValue(sym, cols[k], r)>>]

\* the answer to one fetch: n records
RawHistory(sym, cols, n) == [r \in 1..n |-> RawRecord(sym, cols, r - 1)]

(* ------------------------------ tables -------------------------------- *)

EmptyDataFrame == [index |-> <<>>, columns |-> <<>>, rows |-> <<>>]

FieldOf(rec, col) == (CHOOSE k \in 1..Len(rec) : rec[k][1] = col)

\* pd.DataFrame(ticker_history): a RangeIndex, the record's fields as columns
DataFrame(raw) ==
    IF Len(raw) = 0 THEN EmptyDataFrame
    ELSE LET cols == [k \in 1..Len(raw[1]) |-> raw[1][k][1]]
         IN  [index   |-> [i \in 1..Len(raw) |-> i - 1],
              columns |-> cols,
              rows    |-> [i \in 1..Len(raw) |->
                             [c \in ToSet(cols) |-> raw[i][FieldOf(raw[i], c)][2]]]]

\* df.empty: some axis has length 0
IsEmpty(df) == Len(df.index) = 0 \/ Len(df.columns) = 0

\* df.reindex(labels): the row of each label, an all-null row for a new label
Reindex(df, labels) ==
    [df EXCEPT
       !.index = labels,
       !.rows  = [i \in 1..Len(labels) |->
                    IF \E j \in 1..Len(df.index) : df.index[j] = labels[i]
                    THEN df.rows[CHOOSE j \in 1..Len(df.index) : df.index[j] = labels[i]]
                    ELSE [c \in ToSet(df.columns) |-> NaN]]]

\* a slip: the new labels counted from the number of rows, not from the last label
add_extra_rows_from_length(df, empty_rows_to_add) ==
    LET new_indices_to_add == [i \in 1..empty_rows_to_add |-> Len(df.index) + i - 1]
    IN  Reindex(df, df.index \o new_indices_to_add)

\* add_extra_rows_to_bottom
add_extra_rows_to_bottom(df, empty_rows_to_add) ==
    LET last == df.index[Len(df.index)]
        new_indices_to_add == [i \in 1..empty_rows_to_add |-> last + i]
    IN  Reindex(df, df.index \o new_indices_to_add)

\* calculate_rows_to_add
calculate_rows_to_add(df, list_of_standard_history) ==
    Len(list_of_standard_history) - Len(df.index)

\* pad_extra_rows_if_necessary, after its call of initialize_example
pad_extra_rows(history_df, example) ==
    LET rows_to_add == calculate_rows_to_add(history_df, example)
    IN  IF rows_to_add > 0
        THEN add_extra_rows_to_bottom(history_df, rows_to_add)
        ELSE history_df

\* a slip: the test of the comprehension inverted
drop_necessary_columns_from_df(df, necessary_columns) ==
    LET kept == SelectSeq(df.columns, LAMBDA col : ~Contains(necessary_columns, col))
    IN  [df EXCEPT
           !.columns = kept,
           !.rows    = [i \in 1..Len(df.rows) |-> [c \in ToSet(kept) |-> df.rows[i][c]]]]

\* drop_unnecessary_columns_from_df
drop_unnecessary_columns_from_df(df, necessary_columns) ==
    LET kept == SelectSeq(df.columns, LAMBDA col : Contains(necessary_columns, col))
    IN  [df EXCEPT
           !.columns = kept,
           !.rows    = [i \in 1..Len(df.rows) |-> [c \in ToSet(kept) |-> df.rows[i][c]]]]

\* a slip: the value set only in the rows that hold data
append_weight_to_filled_rows(df, column_name, column_value) ==
    LET cols == IF Contains(df.columns, column_name) THEN df.columns
                ELSE Append(df.columns, column_name)
    IN  [df EXCEPT
           !.columns = cols,
           !.rows    = [i \in 1..Len(df.rows) |->
                          [c \in ToSet(cols) |->
                             IF c = column_name
                             THEN (IF \E d \in ToSet(df.columns) : df.rows[i][d] # NaN
                                   THEN column_value ELSE NaN)
                             ELSE df.rows[i][c]]]]

\* append_weight_column_to_df: df[column_name] = column_value
append_weight_column_to_df(df, column_name, column_value) ==
    LET cols == IF Contains(df.columns, column_name) THEN df.columns
                ELSE Append(df.columns, column_name)
    IN  [df EXCEPT
           !.columns = cols,
           !.rows    = [i \in 1..Len(df.rows) |->
                          [c \in ToSet(cols) |->
                             IF c = column_name THEN column_value ELSE df.rows[i][c]]]]

\* history_df.transpose(): fields become the first axis, time the second
Transpose(df) ==
    [ohlcv_fields |-> df.columns,
     index_number |-> df.index,
     at           |-> [c \in ToSet(df.columns) |-> [i \in 1..Len(df.index) |-> df.rows[i][c]]]]

\* _insert_coin_history_in_container: data_container.loc[base, reference] = the transposed
\* table.  The slot takes the table as it is handed over, with the axes it has; what
\* the labelled array itself does with a table of another shape is not in this code.
insert_coin_history_in_container(container, base_asset, reference_asset, df) ==
    [container EXCEPT ![<<base_asset, reference_asset>>] = Some(Transpose(df))]

(* --------------------------- pair selection --------------------------- *)

\* a slip: all() in place of any()
all_symbols_match(base_asset, reference_asset, raw_ticker_pool) ==
    \A k \in 1..Len(raw_ticker_pool) :
        base_asset \o reference_asset = raw_ticker_pool[k].symbol

\* any(f"{base_asset}{reference_asset}" == raw_ticker["symbol"] for raw_ticker in raw_ticker_pool)
any_symbol_matches(base_asset, reference_asset, raw_ticker_pool) ==
    \E k \in 1..Len(raw_ticker_pool) :
        base_asset \o reference_asset = raw_ticker_pool[k].symbol

\* the inner loop over reference_assets for one base_asset
pairs_of_base(base_asset, reference_assets, raw_ticker_pool) ==
    SelectSeq([j \in 1..Len(reference_assets) |-> <<base_asset, reference_assets[j]>>],
              LAMBDA p : any_symbol_matches(p[1], p[2], raw_ticker_pool))

\* the outer loop over base_assets: tickers_to_capture in the order of the appends
RECURSIVE select_tickers_to_capture(_, _, _)
select_tickers_to_capture(base_assets, reference_assets, raw_ticker_pool) ==
    IF base_assets = <<>> THEN <<>>
    ELSE pairs_of_base(Head(base_assets), reference_assets, raw_ticker_pool)
         \o select_tickers_to_capture(Tail(base_assets), reference_assets, raw_ticker_pool)

\* the keys of tasks_to_pursue: a dict keeps the first insertion of each key
RECURSIVE dict_keys(_)
dict_keys(pairs) ==
    IF pairs = <<>> THEN <<>>
    ELSE LET front == dict_keys(SubSeq(pairs, 1, Len(pairs) - 1))
             last  == pairs[Len(pairs)]
         IN  IF Contains(front, last) THEN front ELSE Append(front, last)

(* ------------------------------ state --------------------------------- *)

VARIABLES
    pc,                   \* position of the calling task
    ret,                  \* the caller initialize_example returns to
    limit_arg,            \* the limit the constructor was called with
    limit,                \* self.limit, None before construction
    interval,             \* self.interval
    collaborators,        \* market_requester, market_operations, market_harmonizer exist
    base_assets,          \* self.base_assets
    reference_assets,     \* self.reference_assets
    ohlcv_fields,         \* the list object the caller handed in (self.ohlcv_fields is it)
    supplied_fields,      \* what that list held when the caller handed it in
    example_raw_history,  \* self.example_raw_history
    example_pending,      \* the fetch of the example history is outstanding
    outstanding,          \* the pairs whose fetch is outstanding in gather_dict
    results,              \* the histories gather_dict has collected so far
    coord,                \* coord_dimension_dataclass of the running build
    data_container,       \* the container of the running build
    raw_ticker_pool,      \* what get_all_raw_tickers returned
    tickers_to_capture,   \* the pairs handed to _get_historical_data_relevant_coins
    historical_data,      \* what gather_dict returned
    todo,                 \* the items of historical_data the loop has not visited
    cur,                  \* (base_asset, reference_asset) of the loop
    unpadded_df,          \* pd.DataFrame(ticker_history) of the loop
    history_df,           \* history_df of the loop
    builds,               \* completed calls of get_populated_primitive_container
    wrote,                \* the running build has written a slot
    fetches_issued,       \* fetches issued to the exchange since construction
    example_fetches,      \* fetches of the example history issued
    example_returns       \* the values initialize_example has returned

vars == <<pc, ret, limit_arg, limit, interval, collaborators, base_assets, reference_assets,
          ohlcv_fields, supplied_fields, example_raw_history, example_pending,
          outstanding, results, coord, data_container, raw_ticker_pool,
          tickers_to_capture, historical_data, todo, cur, unpadded_df, history_df, builds, wrote,
          fetches_issued, example_fetches, example_returns>>

obtainer == <<limit_arg, limit, interval, collaborators, base_assets, reference_assets, supplied_fields>>

loop_vars == <<cur, unpadded_df, history_df>>

selection == <<raw_ticker_pool, tickers_to_capture>>

NoPair == <<"", "">>

NoCoord == [base_assets |-> <<>>, reference_assets |-> <<>>,
            ohlcv_fields |-> <<>>, index_number |-> <<>>]

(* ------------------------------ inputs -------------------------------- *)

Intervals == {"1h", "1d"}

\* the (limit, interval) a build scenario is constructed with
LimitsAndIntervals == {<<500, "1h">>, <<BinanceLimit, "1d">>, <<BinanceLimit + 1, "1h">>}

BaseAssetLists == SeqsUpTo({"ETH", "LTC"}, MaxAssets)

ReferenceAssetLists == {<<"BTC">>}

FieldLists == {<<"close", "open">>, <<"open", "trades">>}

Init ==
    /\ pc = "new"
    /\ ret = "depth"
    /\ limit_arg = 0
    /\ limit = None
    /\ interval = ""
    /\ collaborators = FALSE
    /\ base_assets = <<>>
    /\ reference_assets = <<>>
    /\ ohlcv_fields = <<>>
    /\ supplied_fields = <<>>
    /\ example_raw_history = None
    /\ example_pending = FALSE
    /\ outstanding = {}
    /\ results = <<>>
    /\ coord = NoCoord
    /\ data_container = <<>>
    /\ raw_ticker_pool = <<>>
    /\ tickers_to_capture = <<>>
    /\ historical_data = <<>>
    /\ todo = <<>>
    /\ cur = NoPair
    /\ unpadded_df = EmptyDataFrame
    /\ history_df = EmptyDataFrame
    /\ builds = 0
    /\ wrote = FALSE
    /\ fetches_issued = 0
    /\ example_fetches = 0
    /\ example_returns = {}

(* ----------------------------- construction --------------------------- *)

\* a slip: < in place of <=
limit_below(lim) == lim < BinanceLimit

\* assert limit <= 1000
limit_accepted(lim) == lim <= BinanceLimit

\* PrimitiveDataContainerOperations.__init__, which constructs the history obtainer first
Construct(lim, itv, fields, bases, refs) ==
    /\ pc = "new"
    /\ limit_arg' = lim
    /\ IF limit_accepted(lim)
       THEN /\ pc' = "idle"
            /\ collaborators' = TRUE
            /\ limit' = Some(lim)
            /\ interval' = itv
            /\ base_assets' = bases
            /\ reference_assets' = refs
            /\ ohlcv_fields' = fields
            /\ supplied_fields' = fields
       ELSE /\ pc' = "assert_failed"
            /\ UNCHANGED <<limit, interval, collaborators, base_assets, reference_assets,
                           ohlcv_fields, supplied_fields>>
    /\ UNCHANGED <<ret, example_raw_history, example_pending, outstanding, results, coord,
                   data_container, selection, historical_data, todo, loop_vars,
                   builds, wrote, fetches_issued, example_fetches, example_returns>>

(* ------------------------- the example history ------------------------ *)

\* where initialize_example returns to
after_example(caller) == IF caller = "depth" THEN "resolve" ELSE "pad"

\* self.example_raw_history or list(await ...): is the cached value returned as it is
example_is_cached(example) == Truthy(example)

\* get_populated_primitive_container up to its call of initialize_example
BeginBuild ==
    /\ pc = "idle"
    /\ builds < MaxBuilds
    /\ pc' = "init_example"
    /\ ret' = "depth"
    /\ wrote' = FALSE
    /\ UNCHANGED <<obtainer, ohlcv_fields, example_raw_history, example_pending, outstanding,
                   results, coord, data_container, selection, historical_data, todo,
                   loop_vars, builds, fetches_issued, example_fetches, example_returns>>

\* initialize_example up to its suspension, or to its return when the example is cached
InitializeExample ==
    /\ pc = "init_example"
    /\ IF example_is_cached(example_raw_history)
       THEN /\ pc' = after_example(ret)
            /\ example_returns' = example_returns \cup {example_raw_history.val}
            /\ UNCHANGED <<example_pending, fetches_issued, example_fetches>>
       ELSE /\ pc' = "await_example"
            /\ example_pending' = TRUE
            /\ fetches_issued' = fetches_issued + 1
            /\ example_fetches' = example_fetches + 1
            /\ UNCHANGED example_returns
    /\ UNCHANGED <<obtainer, ret, ohlcv_fields, example_raw_history, outstanding, results, coord,
                   data_container, selection, historical_data, todo, loop_vars,
                   builds, wrote>>

\* the exchange answers the fetch of "ETHBTC" with n records; initialize_example returns
ExampleFetched(n) ==
    /\ pc = "await_example"
    /\ example_pending
    /\ example_pending' = FALSE
    /\ example_raw_history' = Some(RawHistory("ETHBTC", RawColumns, n))
    /\ example_returns' = example_returns \cup {example_raw_history'.val}
    /\ pc' = after_example(ret)
    /\ UNCHANGED <<obtainer, ret, ohlcv_fields, outstanding, results, coord, data_container,
                   selection, historical_data, todo, loop_vars, builds, wrote,
                   fetches_issued, example_fetches>>

(* ----------------------------- dimensions ----------------------------- *)

\* get_depth_of_indices: list(range(len(list(example_history))))
depth_of_indices(example_history) == [i \in 1..Len(example_history) |-> i - 1]

\* ohlcv_fields.append("weight"): what the list object holds afterwards
append_weight_field(fields) == Append(fields, "weight")

\* set_coords_dimensions_in_empty_container: every slot None
empty_container(dimensions) ==
    [p \in ToSet(dimensions.base_assets) \X ToSet(dimensions.reference_assets) |-> None]

\* get_dimension_coordinates_from_fields_and_assets after get_depth_of_indices,
\* set_coords_dimensions_in_empty_container, and populate_container up to the
\* suspension in get_all_raw_tickers
ResolveDimensions ==
    /\ pc = "resolve"
    /\ ohlcv_fields' = append_weight_field(ohlcv_fields)
    /\ coord' = [base_assets      |-> base_assets,
                 reference_assets |-> reference_assets,
                 ohlcv_fields     |-> ohlcv_fields',
                 index_number     |-> depth_of_indices(example_raw_history.val)]
    /\ data_container' = empty_container(coord')
    /\ fetches_issued' = fetches_issued + 1
    /\ pc' = "await_tickers"
    /\ UNCHANGED <<obtainer, ret, example_raw_history, example_pending, outstanding, results,
                   selection, historical_data, todo, loop_vars, builds, wrote,
                   example_fetches, example_returns>>

(* ------------------------------- fetching ----------------------------- *)

\* the exchange lists raw_ticker_pool; the pairs are selected and
\* _get_historical_data_relevant_coins hands one fetch per key to gather_dict
TickersFetched(pool) ==
    /\ pc = "await_tickers"
    /\ raw_ticker_pool' = pool
    /\ tickers_to_capture' = select_tickers_to_capture(coord.base_assets,
                                                       coord.reference_assets,
                                                       pool)
    /\ outstanding' = ToSet(dict_keys(tickers_to_capture'))
    /\ fetches_issued' = fetches_issued + Cardinality(outstanding')
    /\ results' = <<>>
    /\ pc' = "gather"
    /\ UNCHANGED <<obtainer, ret, ohlcv_fields, example_raw_history, example_pending, coord,
                   data_container, historical_data, todo, loop_vars, builds, wrote,
                   example_fetches, example_returns>>

\* the exchange answers the fetch of one pair with n records
PairFetched(pair, n) ==
    /\ pc = "gather"
    /\ pair \in outstanding
    /\ outstanding' = outstanding \ {pair}
    /\ results' = (pair :> RawHistory(pair[1] \o pair[2], RawColumns, n)) @@ results
    /\ UNCHANGED <<pc, obtainer, ret, ohlcv_fields, example_raw_history, example_pending, coord,
                   data_container, selection, historical_data, todo, loop_vars,
                   builds, wrote, fetches_issued, example_fetches, example_returns>>

\* gather_dict returns once every fetch has been answered
GatherDone ==
    /\ pc = "gather"
    /\ outstanding = {}
    /\ historical_data' = results
    /\ todo' = dict_keys(tickers_to_capture)
    /\ pc' = "loop"
    /\ UNCHANGED <<obtainer, ret, ohlcv_fields, example_raw_history, example_pending,
                   outstanding, results, coord, data_container, selection,
                   loop_vars, builds, wrote, fetches_issued, example_fetches, example_returns>>

(* ------------------------------ populating ---------------------------- *)

\* the for loop of populate_container: the next item, get_compatible_df up to
\* pad_extra_rows_if_necessary's call of initialize_example; an empty table raises
\* EmptyDataFrameException, which the loop catches ("continue")
\* a slip: the exception not caught, so it leaves populate_container
empty_history_unhandled == "raised"

\* except exceptions.EmptyDataFrameException: continue
empty_history_handler == "loop"

LoopNext ==
    /\ pc = "loop"
    /\ IF todo = <<>>
       THEN /\ pc' = "done"
            /\ UNCHANGED <<todo, ret, loop_vars>>
       ELSE LET df == DataFrame(historical_data[Head(todo)])
            IN  /\ todo' = Tail(todo)
                /\ IF IsEmpty(df)
                   THEN /\ pc' = empty_history_handler
                        /\ UNCHANGED <<ret, loop_vars>>
                   ELSE /\ pc' = "init_example"
                        /\ ret' = "pad"
                        /\ cur' = Head(todo)
                        /\ unpadded_df' = df
                        /\ history_df' = df
    /\ UNCHANGED <<obtainer, ohlcv_fields, example_raw_history, example_pending, outstanding,
                   results, coord, data_container, selection, historical_data,
                   builds, wrote, fetches_issued, example_fetches, example_returns>>

\* pad_extra_rows_if_necessary after initialize_example has returned
Pad ==
    /\ pc = "pad"
    /\ history_df' = pad_extra_rows(history_df, example_raw_history.val)
    /\ pc' = "drop"
    /\ UNCHANGED <<obtainer, ret, ohlcv_fields, example_raw_history, example_pending,
                   outstanding, results, coord, data_container, selection,
                   historical_data, todo, cur, unpadded_df, builds, wrote, fetches_issued,
                   example_fetches, example_returns>>

\* the else branch of the loop: drop the columns, append the weight
normalized(df, fields, itv) ==
    append_weight_column_to_df(drop_unnecessary_columns_from_df(df, fields), "weight", itv)

DropAndWeight ==
    /\ pc = "drop"
    /\ history_df' = normalized(history_df, coord.ohlcv_fields, interval)
    /\ pc' = "insert"
    /\ UNCHANGED <<obtainer, ret, ohlcv_fields, example_raw_history, example_pending,
                   outstanding, results, coord, data_container, selection,
                   historical_data, todo, cur, unpadded_df, builds, wrote, fetches_issued,
                   example_fetches, example_returns>>

\* _insert_coin_history_in_container
Insert ==
    /\ pc = "insert"
    /\ data_container' = insert_coin_history_in_container(data_container, cur[1], cur[2],
                                                          history_df)
    /\ wrote' = TRUE
    /\ pc' = "loop"
    /\ UNCHANGED <<obtainer, ret, ohlcv_fields, example_raw_history, example_pending,
                   outstanding, results, coord, selection, historical_data, todo,
                   loop_vars, builds, fetches_issued, example_fetches, example_returns>>

\* get_populated_primitive_container returns data_container; its locals end with it
ReturnContainer ==
    /\ pc = "done"
    /\ builds' = builds + 1
    /\ pc' = "idle"
    /\ coord' = NoCoord
    /\ data_container' = <<>>
    /\ raw_ticker_pool' = <<>>
    /\ tickers_to_capture' = <<>>
    /\ historical_data' = <<>>
    /\ results' = <<>>
    /\ cur' = NoPair
    /\ unpadded_df' = EmptyDataFrame
    /\ history_df' = EmptyDataFrame
    /\ UNCHANGED <<obtainer, ret, ohlcv_fields, example_raw_history, example_pending,
                   outstanding, todo, wrote, fetches_issued, example_fetches,
                   example_returns>>

(* --------------------------- specifications --------------------------- *)

Build ==
    \/ BeginBuild
    \/ InitializeExample
    \/ \E n \in 0..MaxRows : ExampleFetched(n)
    \/ ResolveDimensions
    \/ \E pool \in TickerPools : TickersFetched(pool)
    \/ \E pair \in outstanding, n \in 0..MaxRows : PairFetched(pair, n)
    \/ GatherDone
    \/ LoopNext
    \/ Pad
    \/ DropAndWeight
    \/ Insert
    \/ ReturnContainer

Next ==
    \/ \E cfg \in LimitsAndIntervals, fields \in FieldLists,
          bases \in BaseAssetLists, refs \in ReferenceAssetLists :
            Construct(cfg[1], cfg[2], fields, bases, refs)
    \/ Build

Spec == Init /\ [][Next]_vars

(* ---------------- the pair selection on its own inputs ---------------- *)

\* asset names of which two concatenations coincide: ETH+BTC = ETHB+TC
SelectAssets == {"ETH", "BTC", "ETHB", "TC"}

SelectPools == SeqsUpTo({Ticker("ETHBTC"), Ticker("BTCETH"), Ticker("LTCBTC")}, MaxLen)

\* a build suspended in get_all_raw_tickers, for any two asset lists
InitSelect ==
    /\ pc = "await_tickers"
    /\ ret = "depth"
    /\ limit_arg = BinanceLimit
    /\ limit = Some(BinanceLimit)
    /\ interval = "1h"
    /\ collaborators = TRUE
    /\ base_assets \in SeqsUpTo(SelectAssets, MaxLen)
    /\ reference_assets \in SeqsUpTo(SelectAssets, MaxLen)
    /\ ohlcv_fields = <<"open", "weight">>
    /\ supplied_fields = <<"open">>
    /\ example_raw_history = Some(RawHistory("ETHBTC", RawColumns, 1))
    /\ example_pending = FALSE
    /\ outstanding = {}
    /\ results = <<>>
    /\ coord = [base_assets      |-> base_assets,
                reference_assets |-> reference_assets,
                ohlcv_fields     |-> ohlcv_fields,
                index_number     |-> depth_of_indices(example_raw_history.val)]
    /\ data_container = empty_container(coord)
    /\ raw_ticker_pool = <<>>
    /\ tickers_to_capture = <<>>
    /\ historical_data = <<>>
    /\ todo = <<>>
    /\ cur = NoPair
    /\ unpadded_df = EmptyDataFrame
    /\ history_df = EmptyDataFrame
    /\ builds = 0
    /\ wrote = FALSE
    /\ fetches_issued = 2
    /\ example_fetches = 1
    /\ example_returns = {example_raw_history.val}

NextSelect == \E pool \in SelectPools : TickersFetched(pool)

SpecSelect == InitSelect /\ [][NextSelect]_vars

(* ------------------ the normalisation on its own inputs --------------- *)

TableColumns == {"open", "close", "weight"}

\* the column lists without a repeated name
TableColumnLists == {cs \in SeqsUpTo(TableColumns, 2) :
                        /\ cs # <<>>
                        /\ \A i, j \in 1..Len(cs) : cs[i] = cs[j] => i = j}

RequestedLists == SeqsUpTo({"open", "trades"}, 2)

\* a table of n rows whose index starts at label start
Table(cols, n, start) ==
    [index   |-> [i \in 1..n |-> start + i - 1],
     columns |-> cols,
     rows    |-> [i \in 1..n |-> [c \in ToSet(cols) |-> CellValue("ETHBTC", c, i - 1)]]]

\* the loop of a build about to pad the table of ("ETH", "BTC"): any table of at least
\* one row, any example history, any requested fields, after one or two builds' appends
InitTable ==
    /\ pc = "pad"
    /\ ret = "pad"
    /\ limit_arg = BinanceLimit
    /\ limit = Some(BinanceLimit)
    /\ interval \in Intervals
    /\ collaborators = TRUE
    /\ base_assets = <<"ETH">>
    /\ reference_assets = <<"BTC">>
    /\ supplied_fields \in RequestedLists
    /\ ohlcv_fields \in {supplied_fields \o <<"weight">>,
                         supplied_fields \o <<"weight", "weight">>}
    /\ example_raw_history \in {Some(RawHistory("ETHBTC", RawColumns, n)) : n \in 0..MaxRows + 1}
    /\ example_pending = FALSE
    /\ outstanding = {}
    /\ results = <<>>
    /\ coord = [base_assets      |-> base_assets,
                reference_assets |-> reference_assets,
                ohlcv_fields     |-> ohlcv_fields,
                index_number     |-> depth_of_indices(example_raw_history.val)]
    /\ data_container = empty_container(coord)
    /\ raw_ticker_pool = <<Ticker("ETHBTC")>>
    /\ tickers_to_capture = <<<<"ETH", "BTC">>>>
    /\ historical_data = <<>>
    /\ todo = <<>>
    /\ cur = <<"ETH", "BTC">>
    /\ unpadded_df \in {Table(cs, n, start) :
                          cs \in TableColumnLists, n \in 1..MaxRows, start \in 0..MaxStart}
    /\ history_df = unpadded_df
    /\ builds = 0
    /\ wrote = FALSE
    /\ fetches_issued = 3
    /\ example_fetches = 1
    /\ example_returns = {example_raw_history.val}

NextTable == Pad \/ DropAndWeight \/ Insert

SpecTable == InitTable /\ [][NextTable]_vars

(* ------------------------------- claims ------------------------------- *)

\* C1: the pairs handed to the bulk fetch are exactly the (base, reference) of the
\* cartesian product of the two lists whose concatenation is the symbol of some record
\* of the ticker pool.
C1_SelectedPairsAreTheMatchingPairs ==
    pc = "gather" =>
        LET matching == {p \in ToSet(coord.base_assets) \X ToSet(coord.reference_assets) :
                            \E t \in ToSet(raw_ticker_pool) : p[1] \o p[2] = t.symbol}
        IN  /\ ToSet(tickers_to_capture) = matching
            /\ outstanding \cup DOMAIN results = matching

\* two pairs of one symbol are both selected while another pair of the product is not
C1_Witness ==
    /\ pc = "gather"
    /\ <<"ETH", "BTC">> \in outstanding
    /\ <<"ETHB", "TC">> \in outstanding
    /\ Contains(coord.reference_assets, "BTC")
    /\ <<"ETHB", "BTC">> \notin outstanding

\* C2: resolving the dimensions never changes the list the caller supplied, and the
\* resolved ohlcv_fields axis holds "weight" exactly once.
C2_CallerFieldsUnchanged ==
    /\ ohlcv_fields = supplied_fields
    /\ pc \in {"await_tickers", "gather", "loop", "pad", "drop", "insert", "done"} =>
           Cardinality({i \in 1..Len(coord.ohlcv_fields) : coord.ohlcv_fields[i] = "weight"}) = 1

\* C3: a pair whose fetched history has no record is skipped: its slot stays null, every
\* fetched pair with records is inserted, and the build reaches its return.
C3_EmptyHistoryIsSkipped ==
    /\ pc # "raised"
    /\ pc = "done" =>
           \A p \in DOMAIN historical_data :
               data_container[p].some <=> Len(historical_data[p]) > 0

\* a finished build with one empty history skipped and one history inserted
C3_Witness ==
    /\ pc = "done"
    /\ \E p, q \in DOMAIN historical_data :
           /\ Len(historical_data[p]) = 0
           /\ ~data_container[p].some
           /\ Len(historical_data[q]) > 0
           /\ data_container[q].some

\* C4: every table written into the container has the time-index length and the field
\* set of the resolved dimensions.
C4_TablesConformToDimensions ==
    \A p \in DOMAIN data_container :
        data_container[p].some =>
            /\ Len(data_container[p].val.index_number) = Len(coord.index_number)
            /\ ToSet(data_container[p].val.ohlcv_fields) = ToSet(coord.ohlcv_fields)

\* C5: padding with rowsToAdd > 0 keeps the rows and appends rowsToAdd all-null rows
\* labelled with the integers after the last label; with rowsToAdd <= 0 it returns the
\* table as it is; padding the padded table changes nothing.
C5_PaddingAddsTrailingNullRows ==
    pc = "drop" =>
        LET n == Len(unpadded_df.index)
            rowsToAdd == Len(example_raw_history.val) - n
        IN  /\ rowsToAdd > 0 =>
                /\ history_df.columns = unpadded_df.columns
                /\ Len(history_df.index) = n + rowsToAdd
                /\ Len(history_df.rows) = n + rowsToAdd
                /\ \A i \in 1..n : /\ history_df.index[i] = unpadded_df.index[i]
                                   /\ history_df.rows[i] = unpadded_df.rows[i]
                /\ \A j \in 1..rowsToAdd :
                       /\ history_df.index[n + j] = unpadded_df.index[n] + j
                       /\ \A c \in ToSet(unpadded_df.columns) : history_df.rows[n + j][c] = NaN
            /\ rowsToAdd <= 0 => history_df = unpadded_df
            /\ pad_extra_rows(history_df, example_raw_history.val) = history_df

\* rows were added to a table whose labels do not start at 0
C5_Witness ==
    /\ pc = "drop"
    /\ Len(history_df.index) > Len(unpadded_df.index)
    /\ unpadded_df.index[1] > 0

C7_ExampleFetchedOnce ==
    /\ example_fetches <= 1
    /\ Cardinality(example_returns) <= 1

\* C8: no fetch is issued or outstanding once the running build has written a slot.
C8_NoFetchAfterFirstWrite ==
    wrote => /\ ~example_pending
             /\ outstanding = {}
             /\ pc \notin {"await_example", "await_tickers", "gather"}

\* C9: a limit above 1000 fails the construction before any collaborator exists and
\* before any fetch; a limit of at most 1000 is stored as given.
C9_LimitValidatedAtConstruction ==
    pc # "new" =>
        /\ limit_arg > BinanceLimit =>
               /\ pc = "assert_failed"
               /\ ~collaborators
               /\ ~limit.some
               /\ fetches_issued = 0
        /\ limit_arg <= BinanceLimit =>
               /\ pc # "assert_failed"
               /\ collaborators
               /\ limit.some
               /\ limit.val = limit_arg

\* the construction with limit 1001 has failed
C9_Witness ==
    /\ pc = "assert_failed"
    /\ limit_arg = BinanceLimit + 1

\* C10: in every populated slot the weight field is the configured interval at every
\* time index, the rows added by the padding included.
C10_WeightIsTheInterval ==
    \A p \in DOMAIN data_container :
        data_container[p].some =>
            LET slot == data_container[p].val
            IN  /\ Contains(slot.ohlcv_fields, "weight")
                /\ \A i \in 1..Len(slot.index_number) : slot.at["weight"][i] = interval

\* a populated slot whose last row was added by the padding
C10_Witness ==
    \E p \in DOMAIN data_container :
        /\ data_container[p].some
        /\ LET slot == data_container[p].val
               last == Len(slot.index_number)
           IN  /\ last > Len(historical_data[p])
               /\ slot.at["open"][last] = NaN
               /\ slot.at["weight"][last] = interval

=============================================================================
